---------------------------- MODULE Spec2Model ----------------------------
(* pam-jwt-issuer: the /auth/token request pipeline (issue_token) and the   *)
(* SSH user-certificate issuer (issue_ssh_user_cert), as a state machine.   *)
(* Each client connection sends one request at a time; a request is a task  *)
(* of the tokio runtime, and issue_token has no .await in its body, so once *)
(* a worker thread polls the task it holds that worker until the response.  *)
EXTENDS Integers, Sequences, FiniteSets, TLC

(***************************************************************************)
(* Bounds of the model                                                     *)
(***************************************************************************)
NumClients == 2      \* client connections that may have a request in flight
MaxClock == 3        \* the wall clock runs over 0..MaxClock (unix seconds)
MaxWorkers == 2      \* worker threads of the runtime: 1..MaxWorkers
NumNames == 2        \* distinct random names NamedTempFile can draw
IntBits == 6         \* width standing for i64 in the timestamp subtraction

Clients == 1..NumClients
Names == 1..NumNames

(***************************************************************************)
(* Option<T>, Result<T, E>                                                 *)
(***************************************************************************)
None == <<>>
Some(x) == <<x>>
IsSome(o) == Len(o) = 1
Unwrap(o) == o[1]

Ok(v) == [ok |-> TRUE, v |-> v]
Err(e) == [ok |-> FALSE, e |-> e]

(***************************************************************************)
(* Strings are sequences of characters                                     *)
(***************************************************************************)
IsWhite(ch) == ch \in {" ", "\n"}

RECURSIVE TrimStart(_)
TrimStart(s) ==
    IF s = <<>> THEN <<>>
    ELSE IF IsWhite(Head(s)) THEN TrimStart(Tail(s)) ELSE s

RECURSIVE TrimEnd(_)
TrimEnd(s) ==
    IF s = <<>> THEN <<>>
    ELSE IF IsWhite(s[Len(s)]) THEN TrimEnd(SubSeq(s, 1, Len(s) - 1)) ELSE s

\* Trim that leaves trailing whitespace in place
Trim_StartOnly(s) == TrimStart(s)

\* str::trim
Trim(s) == TrimEnd(TrimStart(s))

\* str::starts_with
StartsWith(s, p) == Len(s) >= Len(p) /\ SubSeq(s, 1, Len(p)) = p

PrefixEd25519 == <<"s","s","h","-","e","d","2","5","5","1","9"," ">>
PrefixRsa == <<"s","s","h","-","r","s","a"," ">>
PrefixSk == <<"s","k","-">>

\* LooksLikeSshPub with the separator after the key type forgotten
LooksLikeSshPub_NoSeparator(ssh_pub) ==
    \/ StartsWith(ssh_pub, <<"s","s","h","-","e","d","2","5","5","1","9">>)
    \/ StartsWith(ssh_pub, <<"s","s","h","-","r","s","a">>)
    \/ StartsWith(ssh_pub, PrefixSk)

\* the rough OpenSSH public-key prefix test of issue_token
LooksLikeSshPub(ssh_pub) ==
    \/ StartsWith(ssh_pub, PrefixEd25519)
    \/ StartsWith(ssh_pub, PrefixRsa)
    \/ StartsWith(ssh_pub, PrefixSk)

(***************************************************************************)
(* ApiError and its public rendering                                       *)
(***************************************************************************)
BadRequest(m) == [kind |-> "BadRequest", m |-> m]
AuthFailed == [kind |-> "AuthFailed", m |-> ""]
Internal(m) == [kind |-> "Internal", m |-> m]

\* impl IntoResponse for ApiError: (status, Json(ErrorMessage { error }))
IntoResponse(e) ==
    CASE e.kind = "BadRequest" -> [status |-> 400, body |-> [error |-> e.m]]
      [] e.kind = "AuthFailed" ->
            [status |-> 401, body |-> [error |-> "authentication failed"]]
      [] e.kind = "Internal" ->
            [status |-> 500, body |-> [error |-> "internal error"]]

(***************************************************************************)
(* Integer width: i64 is modelled IntBits wide, overflow wraps             *)
(* (the release profile; overflow checks off)                              *)
(***************************************************************************)
RECURSIVE Pow2(_)
Pow2(n) == IF n = 0 THEN 1 ELSE 2 * Pow2(n - 1)

IntMin == 0 - Pow2(IntBits - 1)
IntMax == Pow2(IntBits - 1) - 1
Wrap(x) == ((x - IntMin) % Pow2(IntBits)) + IntMin

\* let age = now.unix_timestamp() - payload.ts;
Age(now, ts) == Wrap(now - ts)

\* ReplayRejects with the boundary age == window excluded
ReplayRejects_Exclusive(age, window) == age < 0 \/ age >= window

\* ReplayRejects with no upper limit on the age
ReplayRejects_NeverStale(age, window) == age < 0

\* if age < 0 || age > state.max_payload_age_secs
ReplayRejects(age, window) == age < 0 \/ age > window


(***************************************************************************)
(* The request body and what it decodes to                                 *)
(***************************************************************************)
\* a string of the base64 alphabet encoding `bytes`, and one that is not
B64(bytes) == <<"b64", bytes>>
NotB64 == <<"text", <<>>>>
\* an RSA-OAEP(SHA-256) ciphertext of `plain` under the service key, and junk
Oaep(plain) == <<"oaep", plain>>
NotOaep == <<"junk", <<>>>>
\* the JSON text of an AuthPayload, and bytes serde_json rejects
Json(payload) == <<"json", payload>>
NotJson == <<"junk", <<>>>>

\* B64.decode(&req.ciphertext_b64)
B64Decode(s) == IF s[1] = "b64" THEN Ok(s[2]) ELSE Err("decode")
\* state.rsa_private.decrypt(oaep, &ciphertext)
Decrypt(c) == IF c[1] = "oaep" THEN Ok(c[2]) ELSE Err("decrypt")
\* serde_json::from_slice::<AuthPayload>(&plaintext)
FromSlice(p) == IF p[1] = "json" THEN Ok(p[2]) ELSE Err("json")

KeyGood == PrefixRsa \o <<"A">>
KeyMalformed == PrefixSk
KeyBad == <<"s","s","h","-","r","s","a">>

Usernames == {<<" ">>, <<" ", "a", " ">>}
Passwords == {<<>>, <<" ", "p">>, <<"q">>}
Timestamps == {IntMin, 1}
PubKeys == {None, Some(KeyGood), Some(KeyMalformed), Some(KeyBad)}

AuthPayload ==
    [username : Usernames, password : Passwords, ts : Timestamps,
     ssh_pubkey : PubKeys]

\* the request bodies a client may post
Requests ==
    {NotB64, B64(NotOaep), B64(Oaep(NotJson))}
        \cup {B64(Oaep(Json(p))) : p \in AuthPayload}

(***************************************************************************)
(* AppState, built once in main                                            *)
(***************************************************************************)
Lifetimes == {1, 2}
Windows == {-1, 0, 1}
AppState ==
    [jwt_key : {"hs256-secret"}, jwt_exp_minutes : Lifetimes,
     pam_service : {"flaskapi"}, max_payload_age_secs : Windows]

(***************************************************************************)
(* The process environment, read with env::var                             *)
(***************************************************************************)
\* every variable unset: the defaults apply
EnvUnset ==
    [SSH_CA_KEY_PATH |-> None, SSH_CERT_EXTENSIONS |-> None,
     SSH_CERT_SERIAL_BASE |-> None, SSH_CERT_TMP_DIR |-> None]

\* every variable set; the extension list has an empty and a blank entry
EnvSet ==
    [SSH_CA_KEY_PATH |-> Some(<<"/ca">>),
     SSH_CERT_EXTENSIONS |-> Some(<<"x", ",", ",", " ", ",", " ", "y">>),
     SSH_CERT_SERIAL_BASE |-> Some(<<"9">>),
     SSH_CERT_TMP_DIR |-> Some(<<"/run">>)]

Environs == {EnvUnset, EnvSet}

\* Result::unwrap_or_else(|_| d), Option::unwrap_or(d)
UnwrapOr(o, d) == IF IsSome(o) THEN Unwrap(o) ELSE d

\* str::split(sep): the pieces between separators, empty ones included
RECURSIVE Split(_, _)
Split(s, sep) ==
    IF \A i \in 1..Len(s) : s[i] # sep THEN <<s>>
    ELSE LET i == CHOOSE j \in 1..Len(s) :
                     s[j] = sep /\ \A k \in 1..(j - 1) : s[k] # sep
         IN <<SubSeq(s, 1, i - 1)>> \o Split(SubSeq(s, i + 1, Len(s)), sep)

\* .map(|s| s.trim()).filter(|s| !s.is_empty()).collect()
RECURSIVE TrimNonEmpty(_)
TrimNonEmpty(pieces) ==
    IF pieces = <<>> THEN <<>>
    ELSE LET t == Trim(Head(pieces)) IN
         (IF t = <<>> THEN <<>> ELSE <<t>>) \o TrimNonEmpty(Tail(pieces))

\* the extension list issue_token builds from SSH_CERT_EXTENSIONS
Extensions(e) == TrimNonEmpty(Split(UnwrapOr(e.SSH_CERT_EXTENSIONS, <<>>), ","))

\* u64 is modelled IntBits wide
U64Max == Pow2(IntBits) - 1

Digits == <<"0", "1", "2", "3", "4", "5", "6", "7", "8", "9">>
DigitValue(ch) == CHOOSE d \in 0..9 : Digits[d + 1] = ch

\* str::parse::<u64>().ok()
RECURSIVE ParseValue(_)
ParseValue(s) ==
    IF s = <<>> THEN 0
    ELSE 10 * ParseValue(SubSeq(s, 1, Len(s) - 1)) + DigitValue(s[Len(s)])

ParseU64(s) ==
    IF s # <<>> /\ (\A i \in 1..Len(s) : \E d \in 1..10 : Digits[d] = s[i])
       /\ ParseValue(s) <= U64Max
    THEN Some(ParseValue(s)) ELSE None

\* env::var("SSH_CERT_SERIAL_BASE").ok().and_then(parse).unwrap_or(0)
SerialBase(e) ==
    IF IsSome(e.SSH_CERT_SERIAL_BASE)
    THEN UnwrapOr(ParseU64(Unwrap(e.SSH_CERT_SERIAL_BASE)), 0)
    ELSE 0

\* env::var("SSH_CA_KEY_PATH").unwrap_or_else(|_| "/etc/ssh/ssh_user_ca")
CaPath(e) == UnwrapOr(e.SSH_CA_KEY_PATH, <<"/etc/ssh/ssh_user_ca">>)

\* env::var("SSH_CERT_TMP_DIR").unwrap_or_else(|_| "/tmp")
TmpDir(e) == UnwrapOr(e.SSH_CERT_TMP_DIR, <<"/tmp">>)

(***************************************************************************)
(* Token minting                                                           *)
(***************************************************************************)
\* DurationMinutes taking its argument for seconds
DurationMinutes_Seconds(m) == m

\* Duration::minutes(m), in seconds
DurationMinutes(m) == m * 60

\* Claims with the expiry written as issued-at
Claims_IatFromExp(username, now, exp) ==
    [sun |-> username, iat |-> exp, exp |-> exp]

\* Claims { sun, iat, exp }
Claims(username, now, exp) == [sun |-> username, iat |-> now, exp |-> exp]

\* encode(&header, &claims, &key): header.payload.signature
Encode(header, claims, key) == <<header, claims, [hmac |-> key]>>

\* expires_in: state.jwt_exp_minutes * 60
ExpiresIn(minutes) == minutes * 60

\* the 200 response body
TokenResponse(token, minutes, cert, cert_exp) ==
    [status |-> 200,
     body |-> [access_token |-> token, token_type |-> "Bearer",
               expires_in |-> ExpiresIn(minutes),
               ssh_user_cert |-> cert, ssh_user_cert_exp |-> cert_exp]]

(***************************************************************************)
(* State                                                                   *)
(***************************************************************************)
VARIABLES
    clock,      \* OffsetDateTime::now_utc(), unix seconds
    state,      \* AppState
    nworkers,   \* worker threads of the tokio runtime
    files,      \* paths present in the scratch directory
    pc,         \* per client: where its request is
    req,        \* per client: the posted ciphertext_b64
    loc,        \* per client: the handler's local variables
    hist,       \* per client: stages started, and whether each succeeded
    resp,       \* per client: the response sent (when pc = "done")
    clients,    \* the connected clients
    corpus,     \* which request bodies the clients post
    order,      \* per client: which other requests had arrived, and which
                \* had been answered, when its request arrived
    log,        \* per client: the entries its request wrote with error!
    environ,    \* the process environment
    boot        \* the process environment when main() built AppState

vars ==
    <<clock, state, nworkers, files, pc, req, loc, hist, resp, clients, corpus,
      order, log, environ, boot>>

\* what no step of the server changes
env == <<state, nworkers, clients, corpus, environ, boot>>

PubPath(n) == <<n, "pub">>
CertPath(n) == <<n, "cert">>

NoLocals ==
    [ciphertext |-> None, plaintext |-> None, payload |-> None,
     username |-> <<>>, now |-> 0, exp |-> 0, creds |-> None,
     pam |-> "none", token |-> None, tmp |-> None, signer |-> "none",
     cert |-> "none", ca_path |-> <<>>, extensions |-> <<>>, serial_base |-> 0,
     tmp_dir |-> <<>>, rnd |-> 0, argv |-> <<>>]

NoResponse == [status |-> 0, body |-> [error |-> ""]]

\* tasks that occupy a worker thread
Busy == {c \in Clients : pc[c] \notin {"idle", "ready", "done"}}

Begin(h, s) == Append(h, [stage |-> s, ok |-> FALSE])
Pass(h) == [h EXCEPT ![Len(h)].ok = TRUE]

Served ==
    /\ clock = 0
    /\ files = {}
    /\ pc = [c \in Clients |-> "idle"]
    /\ req = [c \in Clients |-> NotB64]
    /\ loc = [c \in Clients |-> NoLocals]
    /\ hist = [c \in Clients |-> <<>>]
    /\ resp = [c \in Clients |-> NoResponse]
    /\ order = [c \in Clients |-> [earlier |-> {}, finished |-> {}]]
    /\ log = [c \in Clients |-> <<>>]
    /\ environ = EnvSet
    /\ boot = environ

\* one client, any request body, any configuration
Init ==
    /\ Served
    /\ state \in AppState
    /\ nworkers \in 1..MaxWorkers
    /\ clients = {1}
    /\ corpus = "Requests"

\* the `?` operator and `return Err(..)`: the error leaves the handler
Fail(c, e) ==
    /\ resp' = [resp EXCEPT ![c] = IntoResponse(e)]
    /\ pc' = [pc EXCEPT ![c] = "done"]

Tick ==
    /\ clock < MaxClock
    /\ clock' = clock + 1
    /\ UNCHANGED <<env, files, pc, req, order, log, loc, hist, resp>>

\* code in the process (a library, a module the delegate loads) calls setenv;
\* the environment is changed at most once after startup
SetEnv ==
    /\ environ = boot
    /\ \E e \in Environs \ {environ} : environ' = e
    /\ UNCHANGED <<clock, state, nworkers, clients, corpus, boot, files, pc,
                   req, order, log, loc, hist, resp>>

\* a well-formed, fresh payload
ValidPayload(key) ==
    [username |-> <<" ", "a", " ">>, password |-> <<" ", "p">>, ts |-> 1,
     ssh_pubkey |-> key]

ConcRequests ==
    {NotB64, B64(NotOaep), B64(Oaep(Json(ValidPayload(None)))),
     B64(Oaep(Json(ValidPayload(Some(KeyGood)))))}

\* two well-formed, fresh requests, alike but for the password
PairRequests ==
    {B64(Oaep(Json(ValidPayload(Some(KeyGood))))),
     B64(Oaep(Json([ValidPayload(Some(KeyGood)) EXCEPT !.password = <<"q">>])))}

\* the request bodies of a named corpus
Corpus(name) ==
    CASE name = "Requests" -> Requests
      [] name = "ConcRequests" -> ConcRequests
      [] name = "PairRequests" -> PairRequests

\* a client posts /auth/token; axum spawns the task
Receive(c) ==
    /\ pc[c] \in {"idle", "done"}
    /\ \E body \in Corpus(corpus) : req' = [req EXCEPT ![c] = body]
    /\ pc' = [pc EXCEPT ![c] = "ready"]
    /\ loc' = [loc EXCEPT ![c] = NoLocals]
    /\ hist' = [hist EXCEPT ![c] = <<>>]
    /\ resp' = [resp EXCEPT ![c] = NoResponse]
    /\ log' = [log EXCEPT ![c] = <<>>]
    /\ order' = [d \in Clients |->
          IF d = c
          THEN [earlier |-> {a \in clients \ {c} : pc[a] # "idle"},
                finished |-> {a \in clients \ {c} : pc[a] = "done"}]
          ELSE [earlier |-> order[d].earlier \ {c},
                finished |-> order[d].finished \ {c}]]
    /\ UNCHANGED <<clock, env, files>>

\* a free worker thread polls the task
Poll(c) ==
    /\ pc[c] = "ready"
    /\ Cardinality(Busy) < nworkers
    /\ pc' = [pc EXCEPT ![c] = "b64"]
    /\ UNCHANGED <<clock, env, files, req, order, log, loc, hist, resp>>

\* 1) base64
DecodeB64(c) ==
    /\ pc[c] = "b64"
    /\ hist' = [hist EXCEPT ![c] = Begin(@, "decrypt")]
    /\ LET r == B64Decode(req[c]) IN
         IF r.ok
         THEN /\ loc' = [loc EXCEPT ![c].ciphertext = Some(r.v)]
              /\ pc' = [pc EXCEPT ![c] = "oaep"]
              /\ UNCHANGED resp
         ELSE /\ Fail(c, BadRequest("invalid base64"))
              /\ UNCHANGED loc
    /\ UNCHANGED <<clock, env, files, req, order, log>>

\* 2) RSA-OAEP
DecryptOaep(c) ==
    /\ pc[c] = "oaep"
    /\ LET r == Decrypt(Unwrap(loc[c].ciphertext)) IN
         IF r.ok
         THEN /\ loc' = [loc EXCEPT ![c].plaintext = Some(r.v)]
              /\ pc' = [pc EXCEPT ![c] = "json"]
              /\ hist' = [hist EXCEPT ![c] = Pass(@)]
              /\ UNCHANGED resp
         ELSE /\ Fail(c, BadRequest("invalid ciphertext"))
              /\ UNCHANGED <<loc, hist>>
    /\ UNCHANGED <<clock, env, files, req, order, log>>

\* 3) JSON
ParseJson(c) ==
    /\ pc[c] = "json"
    /\ hist' = [hist EXCEPT ![c] = Begin(@, "validate")]
    /\ LET r == FromSlice(Unwrap(loc[c].plaintext)) IN
         IF r.ok
         THEN /\ loc' = [loc EXCEPT ![c].payload = Some(r.v)]
              /\ pc' = [pc EXCEPT ![c] = "fields"]
              /\ UNCHANGED resp
         ELSE /\ Fail(c, BadRequest("invalid decrypted json"))
              /\ UNCHANGED loc
    /\ UNCHANGED <<clock, env, files, req, order, log>>

\* FieldsMissing with && for ||
FieldsMissing_Both(username, password) == username = <<>> /\ password = <<>>

\* username.is_empty() || payload.password.is_empty()
FieldsMissing(username, password) == username = <<>> \/ password = <<>>

\* required fields
ValidateFields(c) ==
    /\ pc[c] = "fields"
    /\ LET payload == Unwrap(loc[c].payload)
           username == Trim(payload.username)
       IN IF FieldsMissing(username, payload.password)
          THEN /\ Fail(c, BadRequest("username and password are required"))
               /\ UNCHANGED <<loc, hist>>
          ELSE /\ loc' = [loc EXCEPT ![c].username = username]
               /\ pc' = [pc EXCEPT ![c] = "replay"]
               /\ hist' = [hist EXCEPT ![c] = Pass(@)]
               /\ UNCHANGED resp
    /\ UNCHANGED <<clock, env, files, req, order, log>>

\* 4) replay window
ReplayCheck(c) ==
    /\ pc[c] = "replay"
    /\ LET now == clock
           age == Age(now, Unwrap(loc[c].payload).ts)
       IN /\ loc' = [loc EXCEPT ![c].now = now]
          /\ IF ReplayRejects(age, state.max_payload_age_secs)
             THEN /\ Fail(c, BadRequest("stale or future timestamp"))
                  /\ hist' = [hist EXCEPT ![c] = Begin(@, "replay")]
             ELSE /\ pc' = [pc EXCEPT ![c] = "pam"]
                  /\ hist' = [hist EXCEPT ![c] = Pass(Begin(@, "replay"))]
                  /\ UNCHANGED resp
    /\ UNCHANGED <<clock, env, files, req, order, log>>

\* 5) PAM: Authenticator::with_password, set_credentials
PamInit(c) ==
    /\ pc[c] = "pam"
    /\ hist' = [hist EXCEPT ![c] = Begin(@, "auth")]
    /\ \E init_ok \in BOOLEAN :
         IF init_ok
         THEN /\ loc' = [loc EXCEPT
                    ![c].creds = Some(<<state.pam_service, loc[c].username,
                                        Unwrap(loc[c].payload).password>>),
                    ![c].pam = "authenticating"]
              /\ pc' = [pc EXCEPT ![c] = "in_pam"]
              /\ UNCHANGED resp
         ELSE /\ loc' = [loc EXCEPT ![c].pam = "init failed"]
              /\ Fail(c, Internal("pam init"))
    /\ UNCHANGED <<clock, env, files, req, order, log>>

\* auth.authenticate() returns; the worker thread was blocked in it
PamReturn(c) ==
    /\ pc[c] = "in_pam"
    /\ \E accepted \in BOOLEAN :
         IF accepted
         THEN /\ loc' = [loc EXCEPT ![c].pam = "accepted"]
              /\ pc' = [pc EXCEPT ![c] = "mint"]
              /\ hist' = [hist EXCEPT ![c] = Pass(@)]
              /\ UNCHANGED resp
         ELSE /\ loc' = [loc EXCEPT ![c].pam = "rejected"]
              /\ Fail(c, AuthFailed)
              /\ UNCHANGED hist
    /\ UNCHANGED <<clock, env, files, req, order, log>>

\* let exp = now + Duration::minutes(state.jwt_exp_minutes);
Expiry(now, minutes) == now + DurationMinutes(minutes)

\* 6) HS256 JWT: encode, then decode_header of the fresh token
Mint(c) ==
    /\ pc[c] = "mint"
    /\ LET now == loc[c].now
           exp == Expiry(now, state.jwt_exp_minutes)
           claims == Claims(loc[c].username, now, exp)
           header == [alg |-> "HS256", typ |-> "JWT"]
       IN \E outcome \in {"ok", "jwt encode", "decode header"} :
            IF outcome = "ok"
            THEN /\ loc' = [loc EXCEPT
                       ![c].exp = exp,
                       ![c].token = Some(Encode(header, claims, state.jwt_key))]
                 /\ pc' = [pc EXCEPT ![c] = "cert"]
                 /\ hist' = [hist EXCEPT ![c] = Pass(Begin(@, "mint"))]
                 /\ UNCHANGED resp
            ELSE /\ Fail(c, Internal(outcome))
                 /\ hist' = [hist EXCEPT ![c] = Begin(@, "mint")]
                 /\ UNCHANGED loc
    /\ UNCHANGED <<clock, env, files, req, order, log>>

\* CertResponse with the issuer's error propagated, as `?` would
CertResponse_Propagate(token, minutes, exp, result) ==
    IF result.ok
    THEN TokenResponse(token, minutes, Some(result.v), Some(exp))
    ELSE IntoResponse(result.e)

\* the match on issue_ssh_user_cert's result, and the final Ok((200, Json(..)))
CertResponse(token, minutes, exp, result) ==
    IF result.ok
    THEN TokenResponse(token, minutes, Some(result.v), Some(exp))
    ELSE TokenResponse(token, minutes, None, None)

\* what ssh-keygen writes to its standard error when it fails
Stderr == "ssh-keygen: signing failed"

\* {:?} of an ApiError
DebugFmt(e) ==
    IF e.kind = "AuthFailed" THEN <<"AuthFailed">>
    ELSE <<e.kind, "(", e.m, ")">>

\* error!("ssh-keygen failed: {}", stderr), emitted by issue_ssh_user_cert
\* before it returns Internal("ssh-keygen failed")
IssuerLog(result) ==
    IF ~result.ok /\ result.e = Internal("ssh-keygen failed")
    THEN << <<"ssh-keygen failed: ", Stderr>> >>
    ELSE <<>>

\* CertErrorLog with the decrypted payload added to the entry
CertErrorLog_WithPayload(c, e) ==
    <<"issue ssh cert error: ">> \o DebugFmt(e) \o <<Unwrap(loc[c].payload)>>

\* error!("issue ssh cert error: {:?}", e)
CertErrorLog(c, e) == <<"issue ssh cert error: ">> \o DebugFmt(e)

\* Respond with a failed issuance ending the request, as an early return would
Respond_FailOnError(c, result) ==
    /\ UNCHANGED log
    /\ IF result.ok
       THEN /\ resp' = [resp EXCEPT ![c] =
                   TokenResponse(Unwrap(loc[c].token), state.jwt_exp_minutes,
                                 Some(result.v), Some(loc[c].exp))]
            /\ pc' = [pc EXCEPT ![c] = "done"]
       ELSE Fail(c, result.e)

\* issue_token answers 200 after issue_ssh_user_cert returned `result`
Respond(c, result) ==
    /\ resp' = [resp EXCEPT ![c] =
           CertResponse(Unwrap(loc[c].token), state.jwt_exp_minutes,
                        loc[c].exp, result)]
    /\ pc' = [pc EXCEPT ![c] = "done"]
    /\ log' = [log EXCEPT ![c] =
           @ \o IssuerLog(result)
             \o (IF result.ok THEN <<>> ELSE <<CertErrorLog(c, result.e)>>)]

\* the optional certificate: no key, or the prefix test
CertCheck(c) ==
    /\ pc[c] = "cert"
    /\ LET ssh_pubkey == Unwrap(loc[c].payload).ssh_pubkey IN
         IF ~IsSome(ssh_pubkey)
         THEN /\ resp' = [resp EXCEPT ![c] =
                     TokenResponse(Unwrap(loc[c].token), state.jwt_exp_minutes,
                                   None, None)]
              /\ pc' = [pc EXCEPT ![c] = "done"]
              /\ UNCHANGED <<hist, loc>>
         ELSE /\ hist' = [hist EXCEPT ![c] = Begin(@, "cert")]
              /\ IF ~LooksLikeSshPub(Unwrap(ssh_pubkey))
                 THEN /\ Fail(c, BadRequest("invalid ssh_pubkey"))
                      /\ UNCHANGED loc
                 ELSE \* the three env::var reads of issue_token
                      /\ loc' = [loc EXCEPT
                            ![c].ca_path = CaPath(environ),
                            ![c].extensions = Extensions(environ),
                            ![c].serial_base = SerialBase(environ)]
                      /\ pc' = [pc EXCEPT ![c] = "tmpfile"]
                      /\ UNCHANGED resp
    /\ UNCHANGED <<clock, env, files, req, order, log>>

\* issue_ssh_user_cert returns and the `if let` block of issue_token ends:
\* their local variables go out of scope
Returned(l) ==
    [l EXCEPT !.ca_path = <<>>, !.extensions = <<>>, !.serial_base = 0,
              !.tmp_dir = <<>>, !.tmp = None, !.rnd = 0, !.argv = <<>>]

\* issue_ssh_user_cert 1): env::var, NamedTempFile::new_in, write_all
CreateTmp(c) ==
    /\ pc[c] = "tmpfile"
    /\ \E outcome \in {"ok", "tmpfile", "tmp write"} :
         IF outcome = "ok"
         THEN /\ \E n \in Names :
                   /\ PubPath(n) \notin files
                   /\ files' = files \cup {PubPath(n)}
                   /\ loc' = [loc EXCEPT ![c].tmp = Some(n),
                                         ![c].tmp_dir = TmpDir(environ)]
              /\ pc' = [pc EXCEPT ![c] = "spawn"]
              /\ UNCHANGED <<resp, hist, log>>
         ELSE \* the file, if it was created, is removed when pub_tmp drops
              /\ loc' = [loc EXCEPT ![c] = Returned([@ EXCEPT !.cert = outcome])]
              /\ Respond(c, Err(Internal(outcome)))
              /\ UNCHANGED <<files, hist>>
    /\ UNCHANGED <<clock, env, req, order>>

\* i64::to_string, u64::to_string
RECURSIVE Decimal(_)
Decimal(n) ==
    IF n < 0 THEN <<"-">> \o Decimal(0 - n)
    ELSE IF n < 10 THEN <<Digits[n + 1]>>
    ELSE Decimal(n \div 10) \o <<Digits[(n % 10) + 1]>>

\* a number in a fixed count of digits, zero-padded
RECURSIVE Pad(_, _)
Pad(n, width) ==
    IF width = 0 THEN <<>>
    ELSE Pad(n \div 10, width - 1) \o <<Digits[(n % 10) + 1]>>

\* the UTC calendar date of a day count from 1970-01-01
Date(days) ==
    LET z == days + 719468
        era == z \div 146097
        doe == z - era * 146097
        yoe == (doe - doe \div 1460 + doe \div 36524 - doe \div 146096) \div 365
        doy == doe - (365 * yoe + yoe \div 4 - yoe \div 100)
        mp == (5 * doy + 2) \div 153
        month == IF mp < 10 THEN mp + 3 ELSE mp - 9
    IN [year |-> yoe + era * 400 + (IF month <= 2 THEN 1 ELSE 0),
        month |-> month,
        day |-> doy - (153 * mp + 2) \div 5 + 1]

\* FmtUtc with the seconds left at zero: minute precision
FmtUtc_MinutePrecision(ts) ==
    LET date == Date(ts \div 86400)
        secs == ts % 86400
    IN Pad(date.year, 4) \o Pad(date.month, 2) \o Pad(date.day, 2)
       \o Pad(secs \div 3600, 2) \o Pad((secs \div 60) % 60, 2)
       \o Pad(0, 2)

\* fmt_utc: "[year][month][day][hour][minute][second]" in UTC
FmtUtc(ts) ==
    LET date == Date(ts \div 86400)
        secs == ts % 86400
    IN Pad(date.year, 4) \o Pad(date.month, 2) \o Pad(date.day, 2)
       \o Pad(secs \div 3600, 2) \o Pad((secs \div 60) % 60, 2)
       \o Pad(secs % 60, 2)

\* format!("pam-jwt-issuer:{}:{}", principal, valid_after.unix_timestamp())
KeyId(principal, valid_after) ==
    <<"pam-jwt-issuer", ":">> \o principal \o <<":">> \o Decimal(valid_after)

\* the values OsRng.fill_bytes can produce, read as a little-endian u64
Randoms == {0, U64Max}

\* WrappingAdd stopping at the largest value instead of wrapping
WrappingAdd_Saturating(a, b) == IF a + b > U64Max THEN U64Max ELSE a + b

\* serial_base.wrapping_add(u64::from_le_bytes(rnd))
WrappingAdd(a, b) == (a + b) % Pow2(IntBits)

\* pub_tmp.path(): a fresh name in the scratch directory
PubPathArg(tmp_dir, n) == tmp_dir \o <<"/.tmp">> \o Decimal(n)

\* for ext in extensions { if !ext.is_empty() { cmd.arg("-O").arg(ext); } }
RECURSIVE ExtensionArgs(_)
ExtensionArgs(extensions) ==
    IF extensions = <<>> THEN <<>>
    ELSE (IF Head(extensions) = <<>> THEN <<>>
          ELSE << <<"-O">>, Head(extensions) >>)
         \o ExtensionArgs(Tail(extensions))

\* the arguments of Command::new("ssh-keygen"), in the order they are added
Argv(ca_key_path, principal, valid_after, valid_before, pub_path, extensions, serial) ==
    << <<"-s">>, ca_key_path,
       <<"-I">>, KeyId(principal, valid_after),
       <<"-n">>, principal,
       <<"-V">>, FmtUtc(valid_after) \o <<":">> \o FmtUtc(valid_before),
       <<"-z">>, Decimal(serial),
       pub_path >>
    \o ExtensionArgs(extensions)

\* issue_ssh_user_cert 2), 3): the serial, the command line, and
\* Command::output() starting ssh-keygen
SignerSpawn(c) ==
    /\ pc[c] = "spawn"
    /\ \E spawned \in BOOLEAN, rnd \in Randoms :
         LET serial == WrappingAdd(loc[c].serial_base, rnd)
             argv == Argv(loc[c].ca_path, loc[c].username, loc[c].now,
                          loc[c].exp,
                          PubPathArg(loc[c].tmp_dir, Unwrap(loc[c].tmp)),
                          loc[c].extensions, serial)
         IN
         IF spawned
         THEN /\ loc' = [loc EXCEPT ![c].signer = "running",
                                    ![c].rnd = rnd, ![c].argv = argv]
              /\ pc' = [pc EXCEPT ![c] = "in_signer"]
              /\ UNCHANGED <<resp, files, log>>
         ELSE /\ loc' = [loc EXCEPT ![c] =
                         Returned([@ EXCEPT !.cert = "ssh-keygen spawn"])]
              /\ files' = files \ {PubPath(Unwrap(loc[c].tmp))}
              /\ Respond(c, Err(Internal("ssh-keygen spawn")))
    /\ UNCHANGED <<clock, env, req, order, hist>>

\* the text ssh-keygen writes to <name>-cert.pub
CertText == <<"c", "e", "r", "t", "\n">>

\* status check and 4) fs::read_to_string(&cert_path), trimmed
ReadCert(exit_ok, cert_exists) ==
    IF ~exit_ok THEN Err(Internal("ssh-keygen failed"))
    ELSE IF ~cert_exists THEN Err(Internal("read cert"))
    ELSE Ok(Trim(CertText))

\* ssh-keygen exits; the worker thread was blocked in output()
SignerExit(c) ==
    /\ pc[c] = "in_signer"
    /\ \E outcome \in {"exit 1", "exit 0, wrote", "exit 0, wrote nothing"} :
         LET n == Unwrap(loc[c].tmp)
             written == IF outcome = "exit 0, wrote"
                        THEN files \cup {CertPath(n)} ELSE files
             result == ReadCert(outcome # "exit 1", CertPath(n) \in written)
         IN /\ files' = written \ {PubPath(n)}
            /\ loc' = [loc EXCEPT ![c] = Returned([@ EXCEPT
                  !.signer = "exited",
                  !.cert = IF result.ok THEN "ok" ELSE result.e.m])]
            /\ hist' = [hist EXCEPT ![c] = IF result.ok THEN Pass(@) ELSE @]
            /\ Respond(c, result)
    /\ UNCHANGED <<clock, env, req, order>>

Next ==
    \/ Tick
    \/ SetEnv
    \/ \E c \in clients :
         \/ Receive(c)
         \/ Poll(c)
         \/ DecodeB64(c)
         \/ DecryptOaep(c)
         \/ ParseJson(c)
         \/ ValidateFields(c)
         \/ ReplayCheck(c)
         \/ PamInit(c)
         \/ PamReturn(c)
         \/ Mint(c)
         \/ CertCheck(c)
         \/ CreateTmp(c)
         \/ SignerSpawn(c)
         \/ SignerExit(c)

Spec == Init /\ [][Next]_vars

\* concurrent clients posting well-formed, fresh requests
InitConc ==
    /\ Served
    /\ state = [jwt_key |-> "hs256-secret", jwt_exp_minutes |-> 1,
                pam_service |-> "flaskapi", max_payload_age_secs |-> 1]
    /\ nworkers \in 1..MaxWorkers
    /\ clients = Clients
    /\ corpus = "ConcRequests"

SpecConc == InitConc /\ [][Next]_vars

\* two clients whose requests overlap or follow one another, served by a
\* runtime of one worker thread
InitPair ==
    /\ Served
    /\ state = [jwt_key |-> "hs256-secret", jwt_exp_minutes |-> 1,
                pam_service |-> "flaskapi", max_payload_age_secs |-> 1]
    /\ nworkers = 1
    /\ clients = {1, 2}
    /\ corpus = "PairRequests"

SpecPair == InitPair /\ [][Next]_vars

(***************************************************************************)
(* Vocabulary of the claims, stated on what a client sent and received     *)
(***************************************************************************)
Stages == <<"decrypt", "validate", "replay", "auth", "mint", "cert">>

\* the request decodes, decrypts and parses to an AuthPayload
Decodable(c) == req[c] \in {B64(Oaep(Json(p))) : p \in AuthPayload}
Sent(c) == req[c][2][2][2]

\* username non-empty after trim, password non-empty
HasRequiredFields(p) == Trim(p.username) # <<>> /\ p.password # <<>>

\* 0 <= now - ts <= window, over the integers
Fresh(ts, now, window) == ts <= now /\ now - ts <= window

KnownPrefixes == {PrefixEd25519, PrefixRsa, PrefixSk}
HasKnownPrefix(key) ==
    \E p \in KnownPrefixes : \E n \in 0..Len(key) : SubSeq(key, 1, n) = p

Done(c) == c \in clients /\ pc[c] = "done"

\* the handler reached the replay check and rejected / accepted the timestamp
ReplayRejected(c) == Len(hist[c]) = 3 /\ ~hist[c][3].ok
ReplayAccepted(c) == Len(hist[c]) >= 3 /\ hist[c][3].ok

\* the delegate was asked (session initialisation included)
DelegateInvoked(c) == loc[c].pam # "none"
Minted(c) == IsSome(loc[c].token)
SignerInvoked(c) == loc[c].signer # "none"
CertFailures ==
    {"tmpfile", "tmp write", "ssh-keygen spawn", "ssh-keygen failed", "read cert"}

\* C1: the stages run in the strict order decrypt, validate, replay, auth,
\* mint, cert, each started only after every earlier one succeeded; the
\* delegate is never invoked for a request whose ciphertext, JSON, required
\* fields or timestamp were rejected, and no token is minted for a request the
\* delegate did not accept.
C1_StageOrder ==
    \A c \in clients :
        /\ Len(hist[c]) <= Len(Stages)
        /\ \A i \in 1..Len(hist[c]) :
              /\ hist[c][i].stage = Stages[i]
              /\ i < Len(hist[c]) => hist[c][i].ok
        /\ DelegateInvoked(c) =>
              /\ Decodable(c)
              /\ HasRequiredFields(Sent(c))
              /\ Fresh(Sent(c).ts, loc[c].now, state.max_payload_age_secs)
        /\ Minted(c) => loc[c].pam = "accepted"

\* C1 witness: a request went through all six stages and got its certificate
C1_Witness ==
    \E c \in clients :
        /\ Done(c)
        /\ Len(hist[c]) = 6
        /\ hist[c][6].ok
        /\ resp[c].status = 200

\* what C2 promises of a response
C2_Promise(c) ==
    /\ resp[c].status = 200
    /\ Len(resp[c].body.access_token) > 0
    /\ resp[c].body.access_token[2].exp
         = resp[c].body.access_token[2].iat + state.jwt_exp_minutes * 60
    /\ resp[c].body.expires_in = state.jwt_exp_minutes * 60

C2_Premise(c) ==
    /\ Done(c)
    /\ Decodable(c)
    /\ HasRequiredFields(Sent(c))
    /\ Fresh(Sent(c).ts, loc[c].now, state.max_payload_age_secs)
    /\ loc[c].pam = "accepted"

\* C2 as claimed: every decryptable, well-formed, fresh request the delegate
\* accepts is answered 200 with a non-empty access_token whose exp is iat plus
\* the lifetime, and expires_in = lifetime x 60.
C2_Original == \A c \in clients : C2_Premise(c) => C2_Promise(c)

\* C2 as amended: the same, for requests whose token was signed and whose
\* ssh_pubkey, when present, has a recognized prefix.
C2_TokenResponse ==
    \A c \in clients :
        ( /\ C2_Premise(c)
          /\ Minted(c)
          /\ \/ ~IsSome(Sent(c).ssh_pubkey)
             \/ HasKnownPrefix(Unwrap(Sent(c).ssh_pubkey)) )
        => C2_Promise(c)

C2_Witness ==
    \E c \in clients :
        /\ C2_Premise(c)
        /\ Minted(c)
        /\ IsSome(Sent(c).ssh_pubkey)
        /\ C2_Promise(c)

\* C3: the replay check rejects exactly when ts > now or now - ts > window
\* (over the integers, for every representable ts), and a rejection is the
\* 400 BadRequest response.
C3_ReplayWindow ==
    \A c \in clients :
        Len(hist[c]) >= 3 =>
            LET ts == Sent(c).ts
                now == loc[c].now
                window == state.max_payload_age_secs
            IN /\ ReplayRejected(c) <=> (ts > now \/ now - ts > window)
               /\ ReplayAccepted(c) <=> Fresh(ts, now, window)
               /\ ReplayRejected(c) => pc[c] = "done" /\ resp[c].status = 400

\* C3 witness: a payload one second older than the window was rejected
C3_Witness ==
    \E c \in clients :
        /\ ReplayRejected(c)
        /\ loc[c].now - Sent(c).ts = state.max_payload_age_secs + 1
        /\ resp[c].status = 400

\* C4: a request that fails base64 decoding and one that fails decryption get
\* the same response.
C4_SameBadRequest ==
    \A c1, c2 \in clients :
        ( /\ Done(c1) /\ Done(c2)
          /\ req[c1] = NotB64
          /\ req[c2] = B64(NotOaep) )
        => resp[c1] = resp[c2]

\* C5: for a correct fresh payload, a delegate that rejects the credential or
\* fails to initialize its session yields 401 "authentication failed".
C5_DelegateFailure ==
    \A c \in clients :
        (Done(c) /\ loc[c].pam \in {"init failed", "rejected"})
        => resp[c] = [status |-> 401,
                      body |-> [error |-> "authentication failed"]]

\* C6: an authenticated request with a recognized ssh_pubkey whose certificate
\* issuance fails is still answered 200 with the access token and with both
\* certificate fields absent.
C6_CertFailureNonFatal ==
    \A c \in clients :
        ( /\ Done(c)
          /\ Minted(c)
          /\ IsSome(Sent(c).ssh_pubkey)
          /\ HasKnownPrefix(Unwrap(Sent(c).ssh_pubkey))
          /\ loc[c].cert \in CertFailures )
        => /\ resp[c].status = 200
           /\ resp[c].body.access_token = Unwrap(loc[c].token)
           /\ resp[c].body.ssh_user_cert = None
           /\ resp[c].body.ssh_user_cert_exp = None

C6_Witness ==
    \E c \in clients :
        /\ Done(c)
        /\ loc[c].cert = "ssh-keygen failed"
        /\ resp[c].status = 200
        /\ resp[c].body.ssh_user_cert = None

UnknownKey(c) ==
    /\ Decodable(c)
    /\ IsSome(Sent(c).ssh_pubkey)
    /\ ~HasKnownPrefix(Unwrap(Sent(c).ssh_pubkey))

\* C7 as claimed: a request whose ssh_pubkey has no recognized prefix is
\* answered 400 and the signer is never invoked for it.
C7_Original ==
    \A c \in clients :
        (Done(c) /\ UnknownKey(c))
        => resp[c].status = 400 /\ ~SignerInvoked(c)

\* C7 as amended: a request that passed authentication and token minting and
\* whose ssh_pubkey has no recognized prefix is answered 400; the signer is
\* never invoked, and no temporary file made, for any request with such a key;
\* a key with a recognized prefix is never refused by the handler, malformed
\* or not: issue_ssh_user_cert is called with it.
C7_PrefixGate ==
    \A c \in clients :
        /\ (Done(c) /\ UnknownKey(c) /\ Minted(c)) =>
              resp[c] = [status |-> 400,
                         body |-> [error |-> "invalid ssh_pubkey"]]
        /\ UnknownKey(c) =>
              /\ ~SignerInvoked(c)
              /\ loc[c].tmp = None
              /\ pc[c] \notin {"tmpfile", "spawn", "in_signer"}
        /\ ( /\ Done(c) /\ Minted(c) /\ Decodable(c)
             /\ IsSome(Sent(c).ssh_pubkey)
             /\ HasKnownPrefix(Unwrap(Sent(c).ssh_pubkey)) )
           => resp[c].status = 200 /\ loc[c].cert # "none"

C7_Witness ==
    \E c \in clients :
        /\ Done(c) /\ UnknownKey(c) /\ Minted(c)
        /\ resp[c].status = 400
        /\ ~SignerInvoked(c)

\* C8: every failure is answered as one of the three kinds 400, 401, 500, and
\* two failures of the same kind raised by different stages get the same
\* response.
C8_OneMessagePerKind ==
    \A c1, c2 \in clients :
        ( /\ Done(c1) /\ Done(c2)
          /\ resp[c1].status # 200
          /\ resp[c1].status = resp[c2].status
          /\ Len(hist[c1]) # Len(hist[c2]) )
        => /\ resp[c1].status \in {400, 401, 500}
           /\ resp[c1] = resp[c2]

\* C9: whenever no certificate issuance is in progress, the scratch directory
\* holds no file an issuance left behind.
C9_NoOrphans ==
    (\A c \in clients : pc[c] \notin {"spawn", "in_signer"}) => files = {}

\* C10: while a request is blocked in the delegate or in the signer, every
\* ready request can be polled.
C10_NoStall ==
    \A c1, c2 \in clients :
        (pc[c1] \in {"in_pam", "in_signer"} /\ pc[c2] = "ready")
        => ENABLED Poll(c2)

\* the token of an answered request, and its claims
TokenOf(c) == resp[c].body.access_token
Succeeded(c) == Done(c) /\ resp[c].status = 200

C12_Original ==
    \A c \in clients :
        (Done(c) /\ Minted(c))
        => resp[c].status = 200 /\ TokenOf(c) = Unwrap(loc[c].token)

\* C12 as amended: every request whose token was minted and whose ssh_pubkey
\* is absent or has a recognized prefix ends with a 200 response carrying that
\* token, whatever happens while the certificate is issued; a minted request
\* whose ssh_pubkey has no recognized prefix ends with 400 and no token.
C12_TokenKept ==
    \A c \in clients :
        (Done(c) /\ Minted(c)) =>
            IF UnknownKey(c)
            THEN resp[c].status = 400
            ELSE resp[c].status = 200 /\ TokenOf(c) = Unwrap(loc[c].token)

\* C12 witness: the signer exited 0 but left no certificate, and the token
\* was returned all the same
C12_Witness ==
    \E c \in clients :
        /\ Done(c) /\ Minted(c)
        /\ loc[c].cert = "read cert"
        /\ resp[c].status = 200
        /\ TokenOf(c) = Unwrap(loc[c].token)

\* the request has read the signer's configuration / the scratch directory
ReadSignerConfig(c) == loc[c].ca_path # <<>>
ReadTmpDir(c) == loc[c].tmp_dir # <<>>

\* C13: every configuration value a request uses is the value established at
\* startup: the CA signer path, the extension list, the serial base and the
\* scratch directory a request works with are those of the environment main()
\* started in, whatever the environment has become since.
C13_StartupConfig ==
    \A c \in clients :
        /\ ReadSignerConfig(c) =>
              /\ loc[c].ca_path = CaPath(boot)
              /\ loc[c].extensions = Extensions(boot)
              /\ loc[c].serial_base = SerialBase(boot)
        /\ ReadTmpDir(c) => loc[c].tmp_dir = TmpDir(boot)

\* the signer's command line was built for the request
CommandBuilt(c) == loc[c].argv # <<>>

\* the public-key file of the request, as the signer is told it
PubKeyFile(c) == PubPathArg(loc[c].tmp_dir, Unwrap(loc[c].tmp))

\* one "-O <extension>" pair for every non-empty extension, in order
ExtensionFlags(extensions) ==
    LET given == SelectSeq(extensions, LAMBDA e : e # <<>>)
    IN [i \in 1..(2 * Len(given)) |->
           IF i % 2 = 1 THEN <<"-O">> ELSE given[i \div 2]]

\* C15: the signer's arguments are, in this order: the CA key, the
\* identifier, the principal as the only login name, the validity window,
\* the serial, the extension flags of the non-empty extensions, and last
\* the temporary public-key file.
C15_ArgumentOrder ==
    \A c \in clients :
        CommandBuilt(c) =>
            LET argv == loc[c].argv IN
            /\ argv[Len(argv)] = PubKeyFile(c)
            /\ SubSeq(argv, 11, Len(argv) - 1)
                  = ExtensionFlags(loc[c].extensions)
            /\ SubSeq(argv, 1, 10)
                  = << <<"-s">>, loc[c].ca_path,
                       <<"-I">>, KeyId(loc[c].username, loc[c].now),
                       <<"-n">>, loc[c].username,
                       <<"-V">>, FmtUtc(loc[c].now) \o <<":">>
                                    \o FmtUtc(loc[c].exp),
                       <<"-z">>,
                       Decimal(WrappingAdd(loc[c].serial_base, loc[c].rnd)) >>

\* the serial the signer was given, read back from its "-z" argument
SerialGiven(c) == ParseValue(loc[c].argv[10])

\* C16: the serial given to the signer is the serial base plus the request's
\* random value, reduced modulo the width of u64: it lies in 0..U64Max and
\* differs from the plain sum by zero or by exactly one modulus; nothing but
\* the request's own base and random value enters it.
C16_WrappingSerial ==
    \A c \in clients :
        CommandBuilt(c) =>
            /\ loc[c].argv[9] = <<"-z">>
            /\ SerialGiven(c) \in 0..U64Max
            /\ \E k \in {0, 1} :
                  SerialGiven(c)
                     = loc[c].serial_base + loc[c].rnd - k * Pow2(IntBits)
            /\ \A base \in {0, loc[c].serial_base, U64Max}, r \in Randoms \cup {1} :
                  /\ WrappingAdd(base, r) \in 0..U64Max
                  /\ \E k \in {0, 1} :
                        WrappingAdd(base, r) = base + r - k * Pow2(IntBits)

\* C16 witness: the sum passed the largest u64 and the serial wrapped around
C16_Witness ==
    \E c \in clients :
        /\ CommandBuilt(c)
        /\ loc[c].serial_base + loc[c].rnd > U64Max
        /\ SerialGiven(c) = loc[c].serial_base - 1

\* the day count from 1970-01-01 of a UTC calendar date
DaysFromCivil(year, month, day) ==
    LET y == IF month <= 2 THEN year - 1 ELSE year
        era == y \div 400
        yoe == y - era * 400
        doy == (153 * (IF month > 2 THEN month - 3 ELSE month + 9) + 2) \div 5
               + day - 1
        doe == yoe * 365 + yoe \div 4 - yoe \div 100 + doy
    IN era * 146097 + doe - 719468

\* the instant, in unix seconds, a 14-digit YYYYMMDDHHMMSS stamp denotes
UnixTime(stamp) ==
    DaysFromCivil(ParseValue(SubSeq(stamp, 1, 4)),
                  ParseValue(SubSeq(stamp, 5, 6)),
                  ParseValue(SubSeq(stamp, 7, 8))) * 86400
    + ParseValue(SubSeq(stamp, 9, 10)) * 3600
    + ParseValue(SubSeq(stamp, 11, 12)) * 60
    + ParseValue(SubSeq(stamp, 13, 14))

\* the claims of the token minted for the request
Minting(c) == Unwrap(loc[c].token)[2]

\* C17: one instant per request. The replay check accepted the request at
\* the token's iat; the signer's "-V" argument is two 14-digit stamps joined
\* by ":" that denote iat and iat + 60 * lifetime, which is the token's exp;
\* the identifier ends in iat; a returned certificate comes with
\* ssh_user_cert_exp equal to the token's exp, and the two certificate
\* fields of a 200 response are both present or both absent.
C17_SharedNow ==
    \A c \in clients :
        /\ Minted(c) =>
              /\ ~ReplayRejects(Age(Minting(c).iat, Sent(c).ts),
                                state.max_payload_age_secs)
              /\ Minting(c).exp = Minting(c).iat + 60 * state.jwt_exp_minutes
        /\ CommandBuilt(c) =>
              LET window == loc[c].argv[8]
                  id == Split(loc[c].argv[4], ":")
              IN /\ Len(window) = 29 /\ window[15] = ":"
                 /\ UnixTime(SubSeq(window, 1, 14)) = Minting(c).iat
                 /\ UnixTime(SubSeq(window, 16, 29)) = Minting(c).exp
                 /\ ParseValue(id[Len(id)]) = Minting(c).iat
        /\ Succeeded(c) =>
              /\ IsSome(resp[c].body.ssh_user_cert)
                    <=> IsSome(resp[c].body.ssh_user_cert_exp)
              /\ IsSome(resp[c].body.ssh_user_cert) =>
                    /\ Unwrap(resp[c].body.ssh_user_cert_exp)
                          = TokenOf(c)[2].exp
                    /\ TokenOf(c)[2] = Minting(c)

\* C17 witness: a certificate was returned for a request handled after the
\* clock had moved, and its expiry is the token's
C17_Witness ==
    \E c \in clients :
        /\ Succeeded(c) /\ SignerInvoked(c)
        /\ IsSome(resp[c].body.ssh_user_cert)
        /\ TokenOf(c)[2].iat > 0
        /\ Unwrap(resp[c].body.ssh_user_cert_exp) = TokenOf(c)[2].exp

\* a string without its leading and trailing whitespace: the part between
\* its first and its last character that is not whitespace
Stripped(s) ==
    LET solid == {i \in 1..Len(s) : s[i] \notin {" ", "\n"}}
    IN IF solid = {} THEN <<>>
       ELSE SubSeq(s, CHOOSE i \in solid : \A j \in solid : i <= j,
                      CHOOSE i \in solid : \A j \in solid : i >= j)

\* the principal of a request: its username, stripped
Principal(c) == Stripped(Sent(c).username)

\* C18: a payload whose stripped username or whose password is empty is
\* answered 400 with neither the replay check nor the delegate reached;
\* for every other request the delegate receives (service, stripped username,
\* password as sent), the token's subject is the stripped username, and the
\* signer gets the stripped username as its one "-n" login name and inside
\* the identifier.
C18_Principal ==
    \A c \in clients :
        Decodable(c) =>
            /\ (Principal(c) = <<>> \/ Sent(c).password = <<>>) =>
                  /\ Len(hist[c]) <= 2
                  /\ ~DelegateInvoked(c)
                  /\ Done(c) => resp[c].status = 400
            /\ IsSome(loc[c].creds) =>
                  Unwrap(loc[c].creds)
                     = <<state.pam_service, Principal(c), Sent(c).password>>
            /\ Minted(c) => Minting(c).sun = Principal(c)
            /\ CommandBuilt(c) =>
                  LET argv == loc[c].argv
                      n == Len(Principal(c))
                  IN /\ {i \in 1..Len(argv) : argv[i] = <<"-n">>} = {5}
                     /\ argv[6] = Principal(c)
                     /\ SubSeq(argv[4], 1, n + 3)
                           = <<"pam-jwt-issuer", ":">> \o Principal(c)
                                \o <<":">>

\* C18 witness: a username and a password that both carry whitespace went
\* through to the signer, the username stripped and the password as sent
C18_Witness ==
    \E c \in clients :
        /\ Decodable(c) /\ CommandBuilt(c)
        /\ Principal(c) # Sent(c).username
        /\ Stripped(Sent(c).password) # Sent(c).password
        /\ Unwrap(loc[c].creds)[2] = Principal(c)
        /\ Unwrap(loc[c].creds)[3] = Sent(c).password
        /\ loc[c].argv[6] = Principal(c)

\* request b carries the ciphertext of request a, which had been answered 200
\* when b arrived
Replays(b, a) ==
    /\ a # b
    /\ Succeeded(a)
    /\ a \in order[b].finished
    /\ req[b] = req[a]

\* C14: a ciphertext that was already accepted is judged, when it is sent
\* again, by its timestamp alone: at a time now with 0 <= now - ts <= window
\* the replay check accepts it again and, the delegate and the mint
\* succeeding, it is answered 200; at a time now with now - ts > window it is
\* rejected with 400.
C14_Replayable ==
    \A a, b \in clients :
        (Replays(b, a) /\ Len(hist[b]) >= 3) =>
            LET age == loc[b].now - Sent(b).ts
                window == state.max_payload_age_secs
            IN /\ (0 <= age /\ age <= window) =>
                     /\ ReplayAccepted(b)
                     /\ (Done(b) /\ Minted(b)) => resp[b].status = 200
               /\ age > window =>
                     /\ ReplayRejected(b)
                     /\ Done(b) => resp[b].status = 400

\* C14 witness: the same ciphertext was answered 200 twice, the second time
\* at a later instant
C14_Witness ==
    \E a, b \in clients :
        /\ Replays(b, a)
        /\ Succeeded(b)
        /\ loc[b].now > loc[a].now

\* the error messages a response may carry
PublicMessages ==
    {"invalid base64", "invalid ciphertext", "invalid decrypted json",
     "username and password are required", "stale or future timestamp",
     "invalid ssh_pubkey", "authentication failed", "internal error"}

\* the entries the handler may write to the log
PublicEntries ==
    {<<"ssh-keygen failed: ", Stderr>>}
    \cup {<<"issue ssh cert error: ", "Internal", "(", m, ")">> :
             m \in CertFailures}

\* requests a and b differ in nothing but the password, got the same verdict
\* of the delegate, and met the same clock reading and stage outcomes
SameButPassword(a, b) ==
    /\ DelegateInvoked(a) /\ loc[a].pam = loc[b].pam
    /\ [Sent(a) EXCEPT !.password = Sent(b).password] = Sent(b)
    /\ loc[a].now = loc[b].now
    /\ Minted(a) <=> Minted(b)
    /\ loc[a].cert = loc[b].cert

\* C19: every log entry is one of the fixed entries, none of which holds
\* request data; every error response carries one of the fixed messages; a
\* failure of the signer puts its diagnostic output in the log and answers
\* 200 without certificate fields; and two answered requests that differ only
\* in the password and got the same verdict have equal responses and equal
\* log entries.
C19_NoSecrets ==
    /\ \A c \in clients :
          /\ \A i \in 1..Len(log[c]) : log[c][i] \in PublicEntries
          /\ (Done(c) /\ resp[c].status # 200) =>
                resp[c].body.error \in PublicMessages
          /\ (Done(c) /\ loc[c].cert = "ssh-keygen failed") =>
                /\ log[c] = << <<"ssh-keygen failed: ", Stderr>>,
                               <<"issue ssh cert error: ", "Internal", "(",
                                 "ssh-keygen failed", ")">> >>
                /\ resp[c] = TokenResponse(Unwrap(loc[c].token),
                                           state.jwt_exp_minutes, None, None)
    /\ \A a, b \in clients :
          (Done(a) /\ Done(b) /\ SameButPassword(a, b)) =>
              /\ resp[a] = resp[b]
              /\ log[a] = log[b]

\* C19 witness: two requests with different passwords both ran into a failing
\* signer; their responses and their log entries are the same
C19_Witness ==
    \E a, b \in clients :
        /\ Done(a) /\ Done(b) /\ SameButPassword(a, b)
        /\ Sent(a).password # Sent(b).password
        /\ loc[a].cert = "ssh-keygen failed"
        /\ Len(log[a]) = 2 /\ log[a] = log[b]
        /\ resp[a] = resp[b]

=============================================================================
